---------------------------- MODULE Spec2Model ----------------------------
(***************************************************************************)
(* Model of caption.py: the margin parsing of main, the caption geometry   *)
(* of ImageCaption and the wrap / font-shrink loop of ImageTextWrapper.    *)
(*                                                                         *)
(* A Python str is a sequence of one-character strings.  Pillow's text     *)
(* measurement is modelled by a fixed-pitch font: at point size s every    *)
(* character advances s pixels, a non-empty line is s pixels high and      *)
(* successive lines of a multi-line block are s + 4 pixels apart (4 is     *)
(* the default line spacing of multiline_textbbox).  Image.new refuses a    *)
(* negative size with ValueError and accepts a size of zero.  The font is  *)
(* one loaded from bytes, as FontFactory.load does, so that line 64 can    *)
(* read font.font_bytes.                                                   *)
(***************************************************************************)
EXTENDS Integers, Sequences, FiniteSets

\* ------------------------------------------------------------- bounds
MaxLen == 5
MaxFont == 4

SP == " "
NL == "\n"
Alphabet == {"a", SP, NL}

RECURSIVE SeqsUpTo(_, _)
SeqsUpTo(S, n) ==
    IF n = 0 THEN {<<>>}
    ELSE LET shorter == SeqsUpTo(S, n - 1)
         IN  shorter \cup {Append(t, c) : t \in {u \in shorter : Len(u) = n - 1}, c \in S}

FoxText == <<"T","h","e"," ","q","u","i","c","k"," ","b","r","o","w","n"," ","f","o","x">>
WideThenShort == <<"a","a","a","a"," ","b"," ","c">>
BlankLineText == <<"a","a",NL,NL,NL,"a">>
ScenarioTexts == {FoxText, WideThenShort, BlankLineText}
Texts == SeqsUpTo(Alphabet, MaxLen) \cup ScenarioTexts

\* the -m arguments tried
Arg2 == <<"2">>
Arg1234 == <<"1", ",", "2", ",", "3", ",", "4">>
Arg0000 == <<"0", ",", "0", ",", "0", ",", "0">>
Arg123 == <<"1", ",", "2", ",", "3">>
MarginArgs == {Arg2, Arg1234, Arg0000, Arg123}

\* (width, height) of the source images tried
Images == {<<3, 20>>, <<4, 46>>, <<13, 20>>, <<30, 46>>}
\* ImageCaption.height: <<>> is None, <<h>> an explicit strip height
HeightCfgs == {<<>>, <<6>>, <<16>>, <<30>>}
StartSizes == 1..MaxFont

\* ------------------------------------------------------ str operations
Max(a, b) == IF a >= b THEN a ELSE b

\* index of the first occurrence of c in s, 0 if none
RECURSIVE FindFrom(_, _, _)
FindFrom(s, c, i) ==
    IF i > Len(s) THEN 0
    ELSE IF s[i] = c THEN i
    ELSE FindFrom(s, c, i + 1)

\* str.split(sep) with a one-character separator: "".split(sep) is [""]
RECURSIVE Split(_, _)
Split(s, sep) ==
    LET i == FindFrom(s, sep, 1)
    IN  IF i = 0 THEN <<s>>
        ELSE <<SubSeq(s, 1, i - 1)>> \o Split(SubSeq(s, i + 1, Len(s)), sep)

\* str.join(sep, parts)
RECURSIVE Join(_, _)
Join(parts, sep) ==
    IF Len(parts) = 0 THEN <<>>
    ELSE IF Len(parts) = 1 THEN parts[1]
    ELSE parts[1] \o <<sep>> \o Join(Tail(parts), sep)

IsSpace(c) == c \in {SP, NL}

RECURSIVE LStrip(_)
LStrip(s) == IF Len(s) > 0 /\ IsSpace(s[1]) THEN LStrip(Tail(s)) ELSE s

RECURSIVE RStrip(_)
RStrip(s) ==
    IF Len(s) > 0 /\ IsSpace(s[Len(s)]) THEN RStrip(SubSeq(s, 1, Len(s) - 1)) ELSE s

\* str.strip
Strip(s) == RStrip(LStrip(s))

MapStrip(parts) == [i \in 1..Len(parts) |-> Strip(parts[i])]

\* size_and_wrap's first statement
Normalize(text) == Join(MapStrip(Split(Strip(text), NL)), SP)

\* int() of a string of decimal digits
DigitVal(c) ==
    CASE c = "0" -> 0 [] c = "1" -> 1 [] c = "2" -> 2 [] c = "3" -> 3 [] c = "4" -> 4
      [] c = "5" -> 5 [] c = "6" -> 6 [] c = "7" -> 7 [] c = "8" -> 8 [] c = "9" -> 9

RECURSIVE ParseInt(_)
ParseInt(s) ==
    IF Len(s) = 0 THEN 0
    ELSE 10 * ParseInt(SubSeq(s, 1, Len(s) - 1)) + DigitVal(s[Len(s)])

\* ----------------------------------------------------- text measurement
CharW(size) == size
LineH(size) == size
LineSpacing(size) == size + 4

RECURSIVE MaxLineLen(_)
MaxLineLen(lines) ==
    IF Len(lines) = 0 THEN 0 ELSE Max(Len(lines[1]), MaxLineLen(Tail(lines)))

\* right edge of multiline_textbbox((0,0), tx)
TextWidth(tx, size) == MaxLineLen(Split(tx, NL)) * CharW(size)

\* line i is drawn at top = (i - 1) * LineSpacing; an empty line has an empty
\* box at its top, the block's box is the union of its lines' boxes
RECURSIVE BottomFrom(_, _, _)
BottomFrom(lines, i, size) ==
    IF i > Len(lines) THEN 0
    ELSE Max((i - 1) * LineSpacing(size) + (IF Len(lines[i]) = 0 THEN 0 ELSE LineH(size)),
             BottomFrom(lines, i + 1, size))

\* bottom edge of multiline_textbbox((0,0), tx)
TextHeight(tx, size) == BottomFrom(Split(tx, NL), 1, size)

\* mutants of the two overflow tests: the wrong bounding-box coordinate, the
\* wrong side of the measuring image, a non-strict comparison
is_hovf_height(tx, size, bbox) == TextHeight(tx, size) > bbox[3]
is_hovf_nonstrict(tx, size, bbox) == TextWidth(tx, size) >= bbox[3]
is_vovf_width_side(tx, size, bbox) == TextHeight(tx, size) > bbox[3]

\* lines 57-58: the lambdas of size_and_wrap (mat.size is the box size)
is_hovf(tx, size, bbox) == TextWidth(tx, size) > bbox[3]
is_vovf(tx, size, bbox) == TextHeight(tx, size) > bbox[4]

\* ------------------------------------------------------- ImageTextWrapper
MinFont == 2

\* mutant: the candidate block without the completed lines
test_str_no_head(wrapped, line, word) == Join(Append(line, word), SP)

\* the candidate block of one loop iteration of textwrap
test_str(wrapped, line, word) ==
    Join(wrapped, NL) \o <<NL>> \o Join(Append(line, word), SP)

\* mutant: a line break that restarts the line empty and loses the word
WordStep_drop(wrapped, line, word, size, bbox) ==
    LET t == test_str(wrapped, line, word)
    IN  IF is_vovf(t, size, bbox)
        THEN [ovf |-> TRUE, wrapped |-> wrapped, line |-> line]
        ELSE IF is_hovf(t, size, bbox)
        THEN [ovf |-> FALSE, wrapped |-> Append(wrapped, Join(line, SP)), line |-> <<>>]
        ELSE [ovf |-> FALSE, wrapped |-> wrapped, line |-> Append(line, word)]

\* one iteration of textwrap's for loop
WordStep(wrapped, line, word, size, bbox) ==
    LET t == test_str(wrapped, line, word)
    IN  IF is_vovf(t, size, bbox)
        THEN [ovf |-> TRUE, wrapped |-> wrapped, line |-> line]
        ELSE IF is_hovf(t, size, bbox)
        THEN [ovf |-> FALSE, wrapped |-> Append(wrapped, Join(line, SP)), line |-> <<word>>]
        ELSE [ovf |-> FALSE, wrapped |-> wrapped, line |-> Append(line, word)]

\* the text textwrap joins after its loop
FinalText(wrapped, line) ==
    Join(IF Len(line) > 0 THEN Append(wrapped, Join(line, SP)) ELSE wrapped, NL)

RECURSIVE textwrap_from(_, _, _, _, _, _)
textwrap_from(ws, i, wrapped, line, size, bbox) ==
    IF i > Len(ws)
    THEN LET final == FinalText(wrapped, line)
         IN  [ovf |-> is_vovf(final, size, bbox), text |-> final]
    ELSE LET st == WordStep(wrapped, line, ws[i], size, bbox)
         IN  IF st.ovf THEN [ovf |-> TRUE, text |-> <<>>]
             ELSE textwrap_from(ws, i + 1, st.wrapped, st.line, size, bbox)

\* textwrap as a function of its input: ovf when it raises Overflow
textwrap(text, size, bbox) == textwrap_from(Split(text, SP), 1, <<>>, <<>>, size, bbox)

\* mutant: the loop test off by one
LoopContinues_ge(size) == size >= MinFont

\* line 56
LoopContinues(size) == size > MinFont
\* line 65
ShrunkSize(size) == size - 1

RECURSIVE shrink_loop(_, _, _)
shrink_loop(text, bbox, size) ==
    IF LoopContinues(size)
    THEN LET r == textwrap(text, size, bbox)
         IN  IF r.ovf THEN shrink_loop(text, bbox, ShrunkSize(size))
             ELSE [ovf |-> FALSE, text |-> r.text, size |-> size]
    ELSE [ovf |-> TRUE, text |-> <<>>, size |-> size]

\* size_and_wrap as a function of its input (for a box Image.new accepts)
size_and_wrap(text, bbox, size) == shrink_loop(Normalize(text), bbox, size)

\* ----------------------------------------------------------- ImageCaption
\* int(round(h * .15)): round half to even
StripHeight(h) ==
    LET q == (15 * h) \div 100
        r == (15 * h) % 100
    IN  IF r > 50 \/ (r = 50 /\ q % 2 = 1) THEN q + 1 ELSE q

get_margins(m, img, height) ==
    <<m[1], img[2] + m[2], img[1] - m[3], img[2] + height - m[4]>>

get_textbox(m, img, height) ==
    <<0, 0, img[1] - (m[1] + m[3]), height - (m[2] + m[4])>>

\* ------------------------------------------------------------------- main
\* args.margin after main's margin block: a list of ints or one int
ParseMargin(arg) ==
    IF FindFrom(arg, ",", 1) # 0
    THEN LET parts == Split(arg, ",")
         IN  [isList |-> TRUE, items |-> [i \in 1..Len(parts) |-> ParseInt(parts[i])]]
    ELSE [isList |-> FALSE, items |-> <<ParseInt(arg)>>]

\* ------------------------------------------------------------------ state
VARIABLES
    pc,         \* where the run is, or the exception it ended with
    marginArg,  \* args.margin as given on the command line
    margin,     \* args.margin / ImageCaption.margin after parsing
    img,        \* img.size
    heightCfg,  \* ImageCaption.height
    startFont,  \* ImageCaption.font (its size)
    rawText,    \* the caption
    height, margins, bbox,          \* add_caption's locals
    text, font,                     \* size_and_wrap's locals (font: its size)
    words, idx, wrapped, line,      \* textwrap's locals
    result,                         \* the text size_and_wrap returned
    tried,                          \* the sizes textwrap was called with
    canvas                          \* size of the composed image

vars == <<pc, marginArg, margin, img, heightCfg, startFont, rawText, height, margins,
          bbox, text, font, words, idx, wrapped, line, result, tried, canvas>>

inputs == <<marginArg, img, heightCfg, startFont, rawText>>
geometry == <<height, margins, bbox>>
wrapLocals == <<words, idx, wrapped, line>>

Init ==
    /\ pc = "main"
    /\ marginArg \in MarginArgs
    /\ img \in Images
    /\ heightCfg \in HeightCfgs
    /\ startFont \in StartSizes
    /\ rawText \in Texts
    /\ margin = [isList |-> FALSE, items |-> <<>>]
    /\ height = 0
    /\ margins = <<0, 0, 0, 0>>
    /\ bbox = <<0, 0, 0, 0>>
    /\ text = <<>>
    /\ font = startFont
    /\ words = <<>>
    /\ idx = 1
    /\ wrapped = <<>>
    /\ line = <<>>
    /\ result = <<>>
    /\ tried = <<>>
    /\ canvas = <<0, 0>>

\* main, lines 186-191: parse the margin, assert four values
Main ==
    /\ pc = "main"
    /\ margin' = ParseMargin(marginArg)
    /\ pc' = IF margin'.isList /\ Len(margin'.items) # 4
             THEN "AssertionError" ELSE "add_caption"
    /\ UNCHANGED <<inputs, geometry, text, font, wrapLocals, result, tried, canvas>>

\* add_caption, lines 98-101: strip height, get_margins, get_textbox
AddCaption ==
    /\ pc = "add_caption"
    /\ height' = IF heightCfg = <<>> THEN StripHeight(img[2]) ELSE heightCfg[1]
    /\ IF margin.isList
       THEN /\ margins' = get_margins(margin.items, img, height')
            /\ bbox' = get_textbox(margin.items, img, height')
            /\ pc' = "size_and_wrap"
       ELSE \* self.margin[0] on an int
            /\ pc' = "TypeError"
            /\ UNCHANGED <<margins, bbox>>
    /\ UNCHANGED <<inputs, margin, text, font, wrapLocals, result, tried, canvas>>

\* size_and_wrap, lines 53-55: normalise, allocate the measuring image
SizeAndWrap ==
    /\ pc = "size_and_wrap"
    /\ text' = Normalize(rawText)
    /\ font' = startFont
    /\ pc' = IF bbox[3] < 0 \/ bbox[4] < 0 THEN "ValueError" ELSE "while"
    /\ UNCHANGED <<inputs, margin, geometry, wrapLocals, result, tried, canvas>>

\* line 56 and, when the loop ends, line 67; a true test enters textwrap
While ==
    /\ pc = "while"
    /\ IF LoopContinues(font)
       THEN /\ pc' = "textwrap"
            /\ tried' = Append(tried, font)
            /\ words' = Split(text, SP)
            /\ idx' = 1
            /\ wrapped' = <<>>
            /\ line' = <<>>
       ELSE /\ pc' = "Overflow"
            /\ UNCHANGED <<tried, wrapLocals>>
    /\ UNCHANGED <<inputs, margin, geometry, text, font, result, canvas>>

\* textwrap, lines 35-44: one word
ForWord ==
    /\ pc = "textwrap"
    /\ idx <= Len(words)
    /\ LET st == WordStep(wrapped, line, words[idx], font, bbox)
       IN  IF st.ovf
           THEN /\ pc' = "except"
                /\ UNCHANGED wrapLocals
           ELSE /\ wrapped' = st.wrapped
                /\ line' = st.line
                /\ idx' = idx + 1
                /\ UNCHANGED <<pc, words>>
    /\ UNCHANGED <<inputs, margin, geometry, text, font, result, tried, canvas>>

\* textwrap, lines 45-50, and the return of line 62
ForEnd ==
    /\ pc = "textwrap"
    /\ idx > Len(words)
    /\ LET final == FinalText(wrapped, line)
       IN  IF is_vovf(final, font, bbox)
           THEN /\ pc' = "except"
                /\ UNCHANGED result
           ELSE /\ pc' = "returned"
                /\ result' = final
    /\ UNCHANGED <<inputs, margin, geometry, text, font, wrapLocals, tried, canvas>>

\* lines 63-66
ExceptOverflow ==
    /\ pc = "except"
    /\ font' = ShrunkSize(font)
    /\ pc' = "while"
    /\ UNCHANGED <<inputs, margin, geometry, text, wrapLocals, result, tried, canvas>>

\* add_caption, lines 103-107
Compose ==
    /\ pc = "returned"
    /\ canvas' = <<img[1], img[2] + height>>
    /\ pc' = "done"
    /\ UNCHANGED <<inputs, margin, geometry, text, font, wrapLocals, result, tried>>

Next ==
    \/ Main
    \/ AddCaption
    \/ SizeAndWrap
    \/ While
    \/ ForWord
    \/ ForEnd
    \/ ExceptOverflow
    \/ Compose

Spec == Init /\ [][Next]_vars

\* ------------------------------------------------------ shared vocabulary
Returned == pc \in {"returned", "done"}
LoopEnded == pc \in {"returned", "done", "Overflow"}
GeometryDone == pc \in {"size_and_wrap", "ValueError", "while", "textwrap", "except",
                        "Overflow", "returned", "done"}

ResultLines == Split(result, NL)
PxWidth(s) == Len(s) * CharW(font)
OverWide(s) == PxWidth(s) > bbox[3]

\* the words of a sequence of lines, in order
RECURSIVE LinesWords(_)
LinesWords(lines) ==
    IF Len(lines) = 0 THEN <<>> ELSE Split(lines[1], SP) \o LinesWords(Tail(lines))

\* the lines got from words ws by breaking after the positions in B
RECURSIVE BreakLines(_, _, _, _, _)
BreakLines(ws, B, i, cur, acc) ==
    IF i > Len(ws) THEN acc
    ELSE IF i \in B \/ i = Len(ws)
    THEN BreakLines(ws, B, i + 1, <<>>, Append(acc, Join(Append(cur, ws[i]), SP)))
    ELSE BreakLines(ws, B, i + 1, Append(cur, ws[i]), acc)

FitsBox(lines, size, box) ==
    /\ \A i \in 1..Len(lines) : Len(lines[i]) * CharW(size) <= box[3]
    /\ TextHeight(Join(lines, NL), size) <= box[4]

\* txt can be broken at spaces into lines that fit the box at this size
CanBreakToFit(txt, size, box) ==
    LET ws == Split(txt, SP)
    IN  \E B \in SUBSET (1..(Len(ws) - 1)) :
            FitsBox(BreakLines(ws, B, 1, <<>>, <<>>), size, box)

\* every run of whitespace replaced by one space
RECURSIVE Collapse(_)
Collapse(s) ==
    IF Len(s) = 0 THEN <<>>
    ELSE IF IsSpace(s[1]) THEN <<SP>> \o Collapse(LStrip(s))
    ELSE <<s[1]>> \o Collapse(Tail(s))

\* ------------------------------------------------------------------ C1
\* C1 as stated: in every returned result each line is at most as wide as the
\* box and the block at most as high as the box, at the returned size.
C1_EveryLineFits ==
    Returned =>
        /\ \A i \in 1..Len(ResultLines) : ~OverWide(ResultLines[i])
        /\ TextHeight(result, font) <= bbox[4]

\* C1 amended: the block is at most as high as the box, and a line is wider
\* than the box only if it is one single word that is itself wider than the box.
C1_FitsExceptLoneWideWord ==
    Returned =>
        /\ TextHeight(result, font) <= bbox[4]
        /\ \A i \in 1..Len(ResultLines) :
              OverWide(ResultLines[i]) => Len(Split(ResultLines[i], SP)) = 1

C1_Witness ==
    /\ Returned
    /\ \E i, j \in 1..Len(ResultLines) :
          /\ OverWide(ResultLines[i])
          /\ Len(ResultLines[j]) > 0 /\ ~OverWide(ResultLines[j])
    /\ \E w \in 1..Len(words) : Len(words[w]) > 0 /\ ~OverWide(words[w])

\* ------------------------------------------------------------------ C2
\* C2 as stated: "-m 2" gives four margins of 2, "-m 1,2,3,4" gives left 1,
\* top 2, right 3, bottom 4, and in both cases the geometry is computed
\* without error.
C2_BothMarginForms ==
    /\ (marginArg = Arg2 /\ pc \notin {"main", "add_caption"}) =>
          /\ pc # "TypeError"
          /\ margins = get_margins(<<2, 2, 2, 2>>, img, height)
          /\ bbox = get_textbox(<<2, 2, 2, 2>>, img, height)
    /\ (marginArg = Arg1234 /\ pc \notin {"main", "add_caption"}) =>
          /\ pc # "TypeError"
          /\ margins = <<1, img[2] + 2, img[1] - 3, img[2] + height - 4>>
          /\ bbox = <<0, 0, img[1] - 4, height - 6>>

\* ------------------------------------------------------------------ C3
\* C3 as stated: with a text box of zero or negative width or height the
\* shrink loop never runs and the run never ends in Overflow.
C3_NonPositiveBoxRejected ==
    (GeometryDone /\ (bbox[3] <= 0 \/ bbox[4] <= 0)) =>
        /\ pc \notin {"textwrap", "except", "Overflow", "returned", "done"}
        /\ tried = <<>>

\* ------------------------------------------------------------------ C4
\* C4 as stated: the result uses the largest size above the minimum and up to
\* the start size at which the text can be broken into lines that fit; a text
\* that fits on one line at the start size keeps the start size.
C4_LargestFittingSize ==
    LoopEnded =>
        LET fitting == {s \in (MinFont + 1)..startFont : CanBreakToFit(text, s, bbox)}
        IN  /\ fitting # {} =>
                  /\ pc # "Overflow"
                  /\ font \in fitting
                  /\ \A s \in fitting : s <= font
            /\ (startFont > MinFont /\ FitsBox(<<text>>, startFont, bbox)) =>
                  /\ pc # "Overflow"
                  /\ font = startFont

\* ------------------------------------------------------------------ C5
\* C5 as stated: size_and_wrap gives the same text and size for a text as for
\* that text with every whitespace run collapsed to one space.
C5_SameAsCollapsed ==
    LoopEnded =>
        [ovf |-> pc = "Overflow", text |-> result, size |-> font]
            = size_and_wrap(Collapse(rawText), bbox, startFont)

\* ------------------------------------------------------------------ C6
\* strictly smaller after every step of the run
Variant ==
    LET K == Len(rawText) + 5
    IN  CASE pc = "main" -> (startFont + 1) * K + 3
          [] pc = "add_caption" -> (startFont + 1) * K + 2
          [] pc = "size_and_wrap" -> (startFont + 1) * K + 1
          [] pc = "while" -> font * K + K - 1
          [] pc = "textwrap" -> font * K + Len(words) + 2 - idx
          [] pc = "except" -> font * K
          [] pc = "returned" -> 1
          [] OTHER -> 0

ShrinkAttempts ==
    /\ \A i \in 1..Len(tried) : tried[i] = startFont - (i - 1)
    /\ Len(tried) <= Max(startFont - 2, 0)
    /\ Returned =>
          /\ Len(tried) > 0
          /\ font = tried[Len(tried)]
          /\ ~textwrap(text, font, bbox).ovf
          /\ \A i \in 1..(Len(tried) - 1) : textwrap(text, tried[i], bbox).ovf
    /\ pc = "Overflow" =>
          /\ font <= 2
          /\ result = <<>>
          /\ \A i \in 1..Len(tried) : textwrap(text, tried[i], bbox).ovf
    /\ (LoopEnded /\ startFont <= 2) => (pc = "Overflow" /\ tried = <<>>)
    /\ (LoopEnded /\ bbox[4] <= 1) => pc = "Overflow"

AllWordsFit == \A i \in 1..Len(words) : ~OverWide(words[i])

FirstWord(s) == Split(s, SP)[1]

TheQuick == SubSeq(FoxText, 1, 9)
BrownFox == SubSeq(FoxText, 11, 19)
TwoWordsPerLine ==
    /\ ~OverWide(TheQuick)
    /\ ~OverWide(BrownFox)
    /\ OverWide(SubSeq(FoxText, 1, 15))
    /\ OverWide(SubSeq(FoxText, 5, 19))

\* C7: when the wrap returns and every word fits the box width, the lines hold
\* exactly the words of the text in their order, and a line starts only at a
\* word that would have made the line before it wider than the box; the fox
\* text in a box of two words per line comes out as "The quick" / "brown fox".
C7_GreedyKeepsWords ==
    (Returned /\ AllWordsFit) =>
        /\ LinesWords(ResultLines) = words
        /\ words = Split(text, SP)
        /\ \A i \in 2..Len(ResultLines) :
              PxWidth(ResultLines[i - 1]) + CharW(font)
                  + PxWidth(FirstWord(ResultLines[i])) > bbox[3]
        /\ (rawText = FoxText /\ TwoWordsPerLine) =>
              ResultLines = <<TheQuick, BrownFox>>

C7_Witness ==
    /\ Returned
    /\ rawText = FoxText
    /\ TwoWordsPerLine
    /\ Len(ResultLines) = 2

\* ------------------------------------------------------------------ C8
\* C8: in a returned result a word wider than the box stands alone and whole
\* on its line, the result is returned (no error), every word of the text was
\* consumed once, and the lines hold the words in order (after one empty
\* line when the first word is the wide one).
C8_WideWordAlone ==
    Returned =>
        /\ idx = Len(words) + 1
        /\ words = Split(text, SP)
        /\ LinesWords(ResultLines) \in {words, <<<<>>>> \o words}
        /\ \A i \in 1..Len(ResultLines) :
              LET ws == Split(ResultLines[i], SP)
              IN  (\E k \in 1..Len(ws) : OverWide(ws[k])) => Len(ws) = 1

C8_Witness ==
    /\ Returned
    /\ Len(words) >= 3
    /\ \E i \in 2..Len(words) : OverWide(words[i])
    /\ \E i \in 1..Len(words) : Len(words[i]) > 0 /\ ~OverWide(words[i])

\* ------------------------------------------------------------------ C9
AtFinalCheck == pc = "textwrap" /\ idx > Len(words)
\* the last word was moved to a new line of its own
LastWordBroke == Len(line) = 1 /\ Len(wrapped) >= 1

\* C9 as stated: the height check after the loop never signals overflow.
C9_FinalCheckNeverSignals == ~(pc = "except" /\ idx > Len(words))

\* C9 amended: the height check after the loop cannot signal overflow when the
\* last word was appended to the current line; it signals overflow only when
\* the last word started a new line below at least two completed lines.
C9_FinalCheckOnlyAfterBreak ==
    /\ (AtFinalCheck /\ ~(LastWordBroke /\ Len(wrapped) >= 2)) =>
          ~is_vovf(FinalText(wrapped, line), font, bbox)
    /\ (pc = "except" /\ idx > Len(words)) => (LastWordBroke /\ Len(wrapped) >= 2)

C9_Witness ==
    /\ AtFinalCheck
    /\ Len(words) >= 3
    /\ ~LastWordBroke
    /\ Len(wrapped) >= 1
    /\ TextHeight(FinalText(wrapped, line), font) = bbox[4]

\* ------------------------------------------------------------------ C10
JoinFits(i) ==
    PxWidth(ResultLines[i - 1]) + CharW(font) + PxWidth(FirstWord(ResultLines[i]))
        <= bbox[3]

\* C10 as stated: no line of a (non-empty) result is empty, and the first word
\* of every line would not have fitted at the end of the line before it.
C10_WideLineHarmless ==
    Returned =>
        /\ Len(result) > 0 => \A i \in 1..Len(ResultLines) : Len(ResultLines[i]) > 0
        /\ \A i \in 2..Len(ResultLines) : ~JoinFits(i)

\* C10 amended: the first word of a line would not have fitted at the end of
\* the line before it unless some line above that one is wider than the box (after
\* such a line every word gets a line of its own); a line is empty only as the
\* first line before a first word wider than the box, or as an empty word of
\* the text.
C10_WideLineSplitsRest ==
    Returned =>
        /\ \A i \in 2..Len(ResultLines) :
              JoinFits(i) => \E j \in 1..(i - 2) : OverWide(ResultLines[j])
        /\ \A i \in 1..Len(ResultLines) :
              Len(ResultLines[i]) = 0 =>
                  \/ i = 1 /\ OverWide(words[1])
                  \/ \E k \in 1..Len(words) : Len(words[k]) = 0

C10_Witness ==
    /\ Returned
    /\ rawText = WideThenShort
    /\ \E i \in 3..Len(ResultLines) :
          /\ JoinFits(i)
          /\ Len(ResultLines[i - 1]) > 0
          /\ Len(ResultLines[i]) > 0
=============================================================================
